---- MODULE Spec2Model ----
(***************************************************************************)
(* r2sync: one-way synchronisation of a local directory to a remote        *)
(* object-storage prefix (R2Client.Sync and its helpers).                  *)
(*                                                                         *)
(* Paths, keys and patterns are sequences of one-character strings, so     *)
(* that splitting, joining, cleaning, prefix tests and glob matching are   *)
(* computed the way the Go code computes them.                             *)
(***************************************************************************)
EXTENDS Integers, Sequences, FiniteSets, TLC

\* ------------------------------------------------------------------ bounds

\* Largest value of the --concurrency flag that is explored.
MaxConcurrency == 2

\* Most keys the storage service returns in one page of a listing.
PageSize == 2

\* ----------------------------------------------------------- string helpers

SLASH == "/"

\* strings.HasPrefix
HasPrefix(s, prefix) ==
    /\ Len(prefix) <= Len(s)
    /\ SubSeq(s, 1, Len(prefix)) = prefix

\* Index of the last "/" of s, 0 when there is none (strings.LastIndex).
RECURSIVE LastSlash(_, _)
LastSlash(s, i) ==
    IF i = 0 THEN 0
    ELSE IF s[i] = SLASH THEN i
    ELSE LastSlash(s, i - 1)

\* strings.Split(s, "/"): the pieces between the separators, empty ones kept.
RECURSIVE SplitFrom(_, _, _)
SplitFrom(s, i, cur) ==
    IF i > Len(s) THEN <<cur>>
    ELSE IF s[i] = SLASH THEN <<cur>> \o SplitFrom(s, i + 1, <<>>)
    ELSE SplitFrom(s, i + 1, Append(cur, s[i]))

Split(s) == SplitFrom(s, 1, <<>>)

\* strings.Join(elems, "/")
RECURSIVE JoinSlash(_)
JoinSlash(elems) ==
    IF elems = <<>> THEN <<>>
    ELSE IF Len(elems) = 1 THEN elems[1]
    ELSE elems[1] \o <<SLASH>> \o JoinSlash(Tail(elems))

\* The elements of a path that survive Clean: empty and "." elements are
\* dropped.  (No path of the model holds a ".." element.)
RECURSIVE KeptElems(_)
KeptElems(elems) ==
    IF elems = <<>> THEN <<>>
    ELSE IF elems[1] = <<>> \/ elems[1] = <<".">> THEN KeptElems(Tail(elems))
    ELSE <<elems[1]>> \o KeptElems(Tail(elems))

\* path.Clean / filepath.Clean for paths without ".." elements.
Clean(p) ==
    LET rooted == p # <<>> /\ p[1] = SLASH
    IN  CHOOSE cleaned \in
          { IF rooted THEN <<SLASH>> \o body
            ELSE IF body = <<>> THEN <<".">>
            ELSE body :
            body \in { JoinSlash(kept) :
                kept \in { KeptElems(elems) : elems \in {Split(p)} } } } : TRUE

\* path.Join / filepath.Join of two elements: empty elements are ignored,
\* the rest is joined by "/" and cleaned.
pathJoin(a, b) ==
    IF a = <<>> /\ b = <<>> THEN <<>>
    ELSE IF a = <<>> THEN Clean(b)
    ELSE IF b = <<>> THEN Clean(a)
    ELSE Clean(a \o <<SLASH>> \o b)

\* path.Dir: everything up to the final slash, cleaned.
pathDir(p) == Clean(SubSeq(p, 1, LastSlash(p, Len(p))))

\* filepath.Rel(base, target) for a target that lies at or below base.
filepathRel(base, target) ==
    LET b == KeptElems(Split(base))
        t == KeptElems(Split(target))
        r == SubSeq(t, Len(b) + 1, Len(t))
    IN  IF r = <<>> THEN <<".">> ELSE JoinSlash(r)

\* normalizePath: every backslash becomes a forward slash.
normalizePath(p) == [i \in 1..Len(p) |-> IF p[i] = "\\" THEN SLASH ELSE p[i]]

\* ------------------------------------------------------------ glob matching

\* path.Match reports ErrBadPattern for a character class that is never
\* closed.  (The patterns of the model hold no closed class.)
BadPattern(pattern) ==
    \E i \in 1..Len(pattern) :
        /\ pattern[i] = "["
        /\ \A j \in (i + 1)..Len(pattern) : pattern[j] # "]"

\* The glob itself: "*" is any run of non-separator characters, "?" is one
\* non-separator character, anything else stands for itself.
RECURSIVE Glob(_, _)
Glob(pattern, name) ==
    IF pattern = <<>> THEN name = <<>>
    ELSE IF pattern[1] = "*"
         THEN \/ Glob(Tail(pattern), name)
              \/ /\ name # <<>>
                 /\ name[1] # SLASH
                 /\ Glob(pattern, Tail(name))
    ELSE IF pattern[1] = "?"
         THEN /\ name # <<>>
              /\ name[1] # SLASH
              /\ Glob(Tail(pattern), Tail(name))
    ELSE /\ name # <<>>
         /\ name[1] = pattern[1]
         /\ Glob(Tail(pattern), Tail(name))

\* path.Match(pattern, name) -> (matched, err)
pathMatch(pattern, name) ==
    IF BadPattern(pattern)
    THEN [matched |-> FALSE, err |-> TRUE]
    ELSE [matched |-> Glob(pattern, name), err |-> FALSE]

\* shouldExclude: some pattern matches the full path or one of its parts.
shouldExclude(fullpath, excludePatterns) ==
    \E k \in 1..Len(excludePatterns) :
        LET pattern == excludePatterns[k]
            whole   == pathMatch(pattern, fullpath)
            parts   == Split(fullpath)
        IN  \/ (~whole.err /\ whole.matched)
            \/ \E n \in 1..Len(parts) :
                   LET one == pathMatch(pattern, parts[n])
                   IN  ~one.err /\ one.matched

\* ---------------------------------------------------------- the environment

\* Byte order of the characters that occur in file names (ASCII).
Alphabet == <<".", "/", "[", "\\", "a", "b", "o", "p", "q", "r", "s", "x">>

Rank(c) == CHOOSE i \in 1..Len(Alphabet) : Alphabet[i] = c

\* Go's string comparison s < t.
RECURSIVE StrLess(_, _)
StrLess(s, t) ==
    IF t = <<>> THEN FALSE
    ELSE IF s = <<>> THEN TRUE
    ELSE IF s[1] = t[1] THEN StrLess(Tail(s), Tail(t))
    ELSE Rank(s[1]) < Rank(t[1])

\* The names of a directory in the order filepath.Walk visits them (sorted).
RECURSIVE SortNames(_)
SortNames(names) ==
    IF names = {} THEN <<>>
    ELSE LET least == CHOOSE n \in names : \A m \in names \ {n} : StrLess(n, m)
         IN  <<least>> \o SortNames(names \ {least})

\* File contents; a file's size is the length of its content.
ContentX  == <<"x">>
ContentY  == <<"y">>
ContentZZ == <<"z", "z">>

\* hex.EncodeToString(md5(content)) of the contents above.
MD5Hex(content) ==
    CASE content = ContentX  -> "9dd4e461268c8034f5c8564e155c67a6"
      [] content = ContentY  -> "415290769594460e2e485922904f345d"
      [] content = ContentZZ -> "25ed1bcb423b0b7200f485fc5ff71c8e"

\* The ETag the storage service reports for an object put in one part: the
\* quoted hex MD5 of its body.
ServiceETag(content) == <<"\"", MD5Hex(content), "\"">>

\* What PutObject stores and ListObjectsV2 later reports for it.
StoredObject(content) == [Size |-> Len(content), ETag |-> ServiceETag(content)]

\* A local tree is a function from nodes to what Lstat/Open report.  A node is
\* the sequence of names that leads to it from the sync root (<<>> is the root
\* itself); the program only ever sees the path strings the walk builds.
NodeA  == << <<"a">> >>
NodeS  == << <<"s">> >>
NodeSB == << <<"s">>, <<"b">> >>
\* A file of the root whose name holds a backslash (a legal name where the
\* path separator is "/"): s\b.
NodeSBackslashB == << <<"s", "\\", "b">> >>

DirInfo == [isDir |-> TRUE, content |-> <<>>, readable |-> TRUE]

\* A directory, whose entries can be read or not.
LocalDir(readable) == [isDir |-> TRUE, content |-> <<>>, readable |-> readable]

LocalFile(content, readable) ==
    [isDir |-> FALSE, content |-> content, readable |-> readable]

\* The trees explored: file a (readable or not), directory s (readable or
\* not), file s/b.
Trees ==
    { (<<>> :> DirInfo) @@ (NodeA :> LocalFile(ContentX, r))
          @@ (NodeS :> LocalDir(d)) @@ (NodeSB :> LocalFile(ContentY, TRUE)) :
      r \in BOOLEAN, d \in BOOLEAN }

\* The same tree with the file s\b beside directory s.
TreesBackslash ==
    { (<<>> :> DirInfo) @@ (NodeA :> LocalFile(ContentX, TRUE))
          @@ (NodeS :> LocalDir(TRUE)) @@ (NodeSB :> LocalFile(ContentY, TRUE))
          @@ (NodeSBackslashB :> LocalFile(ContentX, TRUE)) }

\* The names in directory `node` of tree t (os.ReadDir).
ChildNames(t, node) ==
    { n[Len(n)] : n \in { m \in DOMAIN t : /\ Len(m) = Len(node) + 1
                                           /\ SubSeq(m, 1, Len(node)) = node } }

\* Remote keys of the bucket.
KeyA  == <<"p", "/", "a">>
KeyO  == <<"p", "/", "o">>
KeySB == <<"p", "/", "s", "/", "b">>
\* A key outside directory p that starts with the same characters.
KeyPQ == <<"p", "q", "/", "o">>

\* No object under the key.
Absent == <<>>

\* The initial buckets explored: p/a absent or holding x, y or zz; p/o absent
\* or present; p/s/b absent or holding y; and some that hold p/o and pq/o.
BucketChoices ==
    [ {KeyA} -> {Absent, ContentX, ContentY, ContentZZ} ]
BucketRest ==
    [ {KeyO, KeySB} -> {Absent, ContentY} ]

BucketOf(choice) ==
    [ k \in { q \in DOMAIN choice : choice[q] # Absent } |-> StoredObject(choice[k]) ]

BucketsInside == { BucketOf(c1 @@ c2) : c1 \in BucketChoices, c2 \in BucketRest }
BucketsOutside ==
    { BucketOf((KeyA :> a) @@ (KeyO :> ContentY) @@ (KeyPQ :> ContentY)) :
        a \in {Absent, ContentX} }

Buckets == BucketsInside \cup BucketsOutside

\* Command lines explored.
Roots       == { <<".">>, <<"/", "r">> }
RemotePaths == { <<"p">> }
PatternSets == { <<>>, << <<"a">> >>, << <<"[">>, <<"s">> >> }
\* A pattern that matches a segment of the root /r and no name below a root.
RootPattern == << <<"r">> >>
Concurrencies == (-1)..MaxConcurrency

\* main: the source path and the patterns are normalised before Sync is called.
ArgsOver(patternSets) ==
    { [ localPath       |-> normalizePath(root),
        remotePath      |-> rp,
        deleteSync      |-> d,
        dryRun          |-> dr,
        recursive       |-> rec,
        concurrency     |-> c,
        sizeOnly        |-> so,
        excludePatterns |-> [i \in 1..Len(pats) |-> normalizePath(pats[i])] ] :
      root \in Roots, rp \in RemotePaths, d \in BOOLEAN, dr \in BOOLEAN,
      rec \in BOOLEAN, c \in Concurrencies, so \in BOOLEAN, pats \in patternSets }

SyncArgs == ArgsOver(PatternSets)

\* -------------------------------------------------------------------- state

VARIABLES
    args,         \* the arguments of Sync
    tree,         \* the local tree (never changes)
    remote,       \* the bucket: key -> [Size, ETag]
    remote0,      \* the bucket as it was when this run started
    run,          \* "first" or "second" run of Sync with the same arguments
    first,        \* how the first run ended: no failed task? tasks started
    pc,           \* where Sync's own goroutine stands
    result,       \* what Sync returned
    remoteFiles,  \* Sync's remoteFiles map
    todo,         \* entries filepath.Walk has yet to visit, in order
    pending,      \* the task whose semaphore send is in progress
    toDelete,     \* keys the delete loop has yet to range over
    wg,           \* the WaitGroup counter
    semaphore,    \* number of tokens in the semaphore channel
    tasks,        \* the goroutines started, in order of start
    uploadCount,
    deleteCount,
    visited,      \* walk callback outcomes, one per entry it was called on
    putCalls,     \* keys of the PutObject calls that reached the service
    deleteCalls,  \* keys of the DeleteObject calls that reached the service
    logged,       \* log lines written: <<kind, key>>
    listing       \* ListObjects: result so far, continuation token, tokens
                  \* sent, whether a request failed

vars == <<args, tree, remote, remote0, run, first, pc, result, remoteFiles,
          todo, pending, toDelete, wg, semaphore, tasks, uploadCount,
          deleteCount, visited, putCalls, deleteCalls, logged, listing>>

NoTask == [kind |-> "none"]

\* A nil continuation token.
NilToken == <<>>

\* ListObjects before its first request: an empty result map, no token.
NotListed ==
    [result |-> <<>>, token |-> NilToken, calls |-> <<>>, failed |-> FALSE]

\* The state in which Sync is entered.
Entry ==
    /\ pc = "list"
    /\ result = "none"
    /\ remoteFiles = <<>>
    /\ todo = <<>>
    /\ pending = NoTask
    /\ toDelete = {}
    /\ wg = 0
    /\ semaphore = 0
    /\ tasks = <<>>
    /\ uploadCount = 0
    /\ deleteCount = 0
    /\ visited = {}
    /\ putCalls = <<>>
    /\ deleteCalls = <<>>
    /\ logged = {}
    /\ listing = NotListed

Init ==
    /\ args \in SyncArgs
    /\ tree \in Trees
    /\ remote \in Buckets
    /\ remote0 = remote
    /\ run = "first"
    /\ first = [ok |-> FALSE, started |-> 0]
    /\ Entry

\* ------------------------------------------------------------------ helpers

\* One more call recorded for key k.
CallAdd(calls, k) ==
    IF k \in DOMAIN calls THEN [calls EXCEPT ![k] = @ + 1] ELSE calls @@ (k :> 1)

\* A delete(m, k) that leaves the key in place.
MapKeep(m, k) == m

\* delete(m, k) on a Go map.
MapDelete(m, k) == [q \in DOMAIN m \ {k} |-> m[q]]

\* ListObjectsV2 with Prefix: the objects whose key starts with the prefix.
ListedUnder(bucket, prefix) ==
    [k \in { q \in DOMAIN bucket : HasPrefix(q, prefix) } |-> bucket[k]]

\* The first n elements of a sequence.
FirstN(seq, n) == SubSeq(seq, 1, IF n < Len(seq) THEN n ELSE Len(seq))

\* One ListObjectsV2 request as the service answers it: the keys under the
\* prefix that follow the continuation token, in key order, at most PageSize
\* of them; IsTruncated when more remain, and then the token for the rest.
ListObjectsV2(bucket, prefix, token) ==
    LET after == { k \in DOMAIN ListedUnder(bucket, prefix) :
                       token = NilToken \/ StrLess(token, k) }
    IN  CHOOSE resp \in
          { LET page == FirstN(keys, PageSize)
                more == Len(keys) > Len(page)
            IN  [ Contents              |-> [ k \in { page[i] : i \in 1..Len(page) } |->
                                                bucket[k] ],
                  IsTruncated           |-> more,
                  NextContinuationToken |-> IF more THEN page[Len(page)] ELSE NilToken ] :
            keys \in {SortNames(after)} } : TRUE

\* result[*obj.Key] = FileInfo{...} for every object of a page.
Accumulate(acc, contents) ==
    [ k \in DOMAIN acc \cup DOMAIN contents |->
        IF k \in DOMAIN contents THEN contents[k] ELSE acc[k] ]

ListDoneAtOnce(resp) == TRUE

\* The listing loop ends at a page that is not truncated.
ListDone(resp) == ~resp.IsTruncated

\* What os.Open and a read get for a path string: the path is resolved
\* name by name, split at "/"; the names below the sync root lead to a
\* regular file of the tree, or to nothing that can be read (no such file, a
\* directory, no permission).
NoFile == [isDir |-> FALSE, content |-> <<>>, readable |-> FALSE]
OpenFile(path) ==
    CHOOSE file \in
        { IF n \in DOMAIN tree /\ ~tree[n].isDir THEN tree[n] ELSE NoFile :
          n \in { SubSeq(elems, Len(base) + 1, Len(elems)) :
                    elems \in {KeptElems(Split(path))},
                    base  \in {KeptElems(Split(args.localPath))} } } : TRUE

calcETagNeverFails(info) ==
    [err |-> FALSE, etag |-> <<"\"", MD5Hex(info.content), "\"">>]

\* calcETag: the quoted hex MD5 of the file, or an error when it cannot be
\* opened or read.
calcETag(info) ==
    IF info.readable
    THEN [err |-> FALSE, etag |-> <<"\"", MD5Hex(info.content), "\"">>]
    ELSE [err |-> TRUE, etag |-> <<>>]

\* The entries filepath.Walk visits below directory `dir`: its names, sorted,
\* each joined to the directory's path.
WalkChildren(dir) ==
    CHOOSE entries \in
        { [i \in 1..Len(names) |->
            [full |-> pathJoin(dir.full, names[i]),
             node |-> Append(dir.node, names[i])]] :
          names \in {SortNames(ChildNames(tree, dir.node))} } : TRUE

\* The same checks with an excluded directory entered instead of pruned.
EntryVerdictNoPrune(fullpath, isDir) ==
    IF ~isDir /\ shouldExclude(fullpath, args.excludePatterns) THEN "skip"
    ELSE IF ~args.recursive /\ pathDir(fullpath) # args.localPath THEN "skip"
    ELSE IF isDir THEN "descend"
    ELSE "file"

\* The walk callback's first checks (exclusion, recursion rule, directory):
\* "skip" leaves the entry out (SkipDir for a directory, nil for a file),
\* "descend" is a directory the walk goes into, "file" goes on to be compared.
EntryVerdict(fullpath, isDir) ==
    IF shouldExclude(fullpath, args.excludePatterns) THEN "skip"
    ELSE IF ~args.recursive /\ pathDir(fullpath) # args.localPath THEN "skip"
    ELSE IF isDir THEN "descend"
    ELSE "file"

\* remoteKey of a local file.
RemoteKeyOf(fullpath) ==
    CHOOSE remoteKey \in
        { pathJoin(args.remotePath, relKey) :
            relKey \in { normalizePath(relPath) :
                relPath \in {filepathRel(args.localPath, fullpath)} } } : TRUE

NeedUploadSizeOnly(size, etag, remoteInfo) == size # remoteInfo.Size
NeedUploadAlways(size, etag, remoteInfo) == TRUE

\* needUpload for a file whose remote key is in the inventory, given the
\* outcome of calcETag (not consulted in size-only mode).
NeedUpload(size, etag, remoteInfo) ==
    IF args.sizeOnly
    THEN size # remoteInfo.Size
    ELSE size # remoteInfo.Size \/ etag # remoteInfo.ETag

\* A send on the semaphore channel goes through only while the channel holds
\* fewer than `concurrency` tokens.
SlotFreeAlways == TRUE
SlotFree == semaphore < args.concurrency

\* wg.Wait() returns only when the counter is zero.
WaitReturnsAtOnce == TRUE
WaitNeverReturns == FALSE
WaitReturns == wg = 0

\* The delete phase is entered when delete mode is on and keys remain.
DeletePhaseUnlessFailed ==
    /\ args.deleteSync
    /\ DOMAIN remoteFiles # {}
    /\ \A i \in 1..Len(tasks) : ~tasks[i].err
DeletePhase == args.deleteSync /\ DOMAIN remoteFiles # {}

\* Where Sync stands once the walk has `rest` left to visit.
AfterVisit(rest) == IF rest = <<>> THEN "wait_upload" ELSE "walk"

\* --------------------------------------------------- Sync's own goroutine

\* One round of the loop of ListObjects: a request with the token of the
\* previous page, its objects added to the result.  After a page that is not
\* truncated ListObjects returns the result, the semaphore channel is made
\* and the walk starts at the root.  make(chan struct{}, n) panics for n < 0.
ListObjects ==
    /\ pc = "list"
    /\ \E resp \in {ListObjectsV2(remote, args.remotePath, listing.token)} :
       \E acc \in {Accumulate(listing.result, resp.Contents)} :
           /\ listing' = [result |-> acc,
                          token  |-> resp.NextContinuationToken,
                          calls  |-> Append(listing.calls, listing.token),
                          failed |-> FALSE]
           /\ IF ListDone(resp)
              THEN /\ remoteFiles' = acc
                   /\ IF args.concurrency < 0
                      THEN /\ pc' = "panic"
                           /\ todo' = <<>>
                      ELSE /\ pc' = "walk"
                           /\ todo' = << [full |-> args.localPath, node |-> <<>>] >>
              ELSE UNCHANGED <<pc, remoteFiles, todo>>
    /\ UNCHANGED <<args, tree, remote, remote0, run, first, result, pending,
                   toDelete, wg, semaphore, tasks, uploadCount, deleteCount,
                   visited, putCalls, deleteCalls, logged>>

\* A failed request whose error is ignored: what was listed so far is used.
ListObjectsFailsPartial ==
    /\ pc = "list"
    /\ listing' = [listing EXCEPT !.calls = Append(@, listing.token),
                                  !.failed = TRUE]
    /\ remoteFiles' = listing.result
    /\ pc' = "walk"
    /\ todo' = << [full |-> args.localPath, node |-> <<>>] >>
    /\ UNCHANGED <<args, tree, remote, remote0, run, first, result, pending,
                   toDelete, wg, semaphore, tasks, uploadCount, deleteCount,
                   visited, putCalls, deleteCalls, logged>>

\* A request of ListObjects fails, on the first page or a later one:
\* ListObjects returns nil and the error, Sync returns the error.
ListObjectsFails ==
    /\ pc = "list"
    /\ listing' = [listing EXCEPT !.calls = Append(@, listing.token),
                                  !.failed = TRUE]
    /\ pc' = "returned"
    /\ result' = "list_error"
    /\ UNCHANGED <<args, tree, remote, remote0, run, first, remoteFiles, todo,
                   pending, toDelete, wg, semaphore, tasks, uploadCount,
                   deleteCount, visited, putCalls, deleteCalls, logged>>

\* The walk callback on the next entry, up to the point where it either
\* returns or blocks on the semaphore send.
WalkFn ==
    /\ pc = "walk"
    /\ todo # <<>>
    /\ \E fullpath \in {normalizePath(Head(todo).full)} :
       \E key \in {RemoteKeyOf(fullpath)} :
       \E verdict \in {EntryVerdict(fullpath, tree[Head(todo).node].isDir)} :
       \E opened \in {OpenFile(fullpath)} :
       LET e        == Head(todo)
           rest     == Tail(todo)
           info     == tree[e.node]
           exists   == key \in DOMAIN remoteFiles
           hashed   == exists /\ ~args.sizeOnly
           sum      == calcETag(opened)
           need     == IF exists
                       THEN NeedUpload(Len(info.content), sum.etag, remoteFiles[key])
                       ELSE TRUE
           seen(v)  == visited \cup
                         { [node |-> e.node, full |-> fullpath, verdict |-> v,
                            key |-> key, exists |-> exists,
                            remoteInfo |-> IF exists THEN remoteFiles[key]
                                           ELSE [Size |-> -1, ETag |-> <<>>]] }
       IN  CASE info.isDir /\ ~info.readable ->
                  \* The directory could not be read: the callback is called
                  \* with that error and returns it before any other check;
                  \* the walk stops and Sync returns "upload failed: ...".
                  /\ pc' = "returned"
                  /\ result' = "walk_error"
                  /\ visited' = seen("failed")
                  /\ UNCHANGED <<todo, remoteFiles, pending, wg, uploadCount>>
             [] ~(info.isDir /\ ~info.readable) /\ verdict = "skip" ->
                  /\ todo' = rest
                  /\ pc' = AfterVisit(rest)
                  /\ visited' = seen("skip")
                  /\ UNCHANGED <<result, remoteFiles, pending, wg, uploadCount>>
             [] ~(info.isDir /\ ~info.readable) /\ verdict = "descend" ->
                  /\ todo' = WalkChildren([full |-> e.full, node |-> e.node]) \o rest
                  /\ pc' = AfterVisit(todo')
                  /\ visited' = seen("descend")
                  /\ UNCHANGED <<result, remoteFiles, pending, wg, uploadCount>>
             [] verdict = "file" /\ hashed /\ sum.err ->
                  \* calcETag failed: the callback returns the error, the
                  \* walk stops and Sync returns "upload failed: ...".
                  /\ pc' = "returned"
                  /\ result' = "walk_error"
                  /\ visited' = seen("error")
                  /\ UNCHANGED <<todo, remoteFiles, pending, wg, uploadCount>>
             [] verdict = "file" /\ ~(hashed /\ sum.err) /\ need ->
                  /\ wg' = wg + 1
                  /\ uploadCount' = uploadCount + 1
                  /\ pending' = [kind |-> "upload", node |-> e.node,
                                 localPath |-> fullpath, key |-> key]
                  /\ pc' = "send_upload"
                  /\ visited' = seen("upload")
                  /\ UNCHANGED <<result, todo, remoteFiles>>
             [] verdict = "file" /\ ~(hashed /\ sum.err) /\ ~need ->
                  /\ remoteFiles' = MapDelete(remoteFiles, key)
                  /\ todo' = rest
                  /\ pc' = AfterVisit(rest)
                  /\ visited' = seen("same")
                  /\ UNCHANGED <<result, pending, wg, uploadCount>>
    /\ UNCHANGED <<listing, args, tree, remote, remote0, run, first, toDelete, semaphore,
                   tasks, deleteCount, putCalls, deleteCalls, logged>>

\* The semaphore send of an upload goes through: the goroutine starts, the
\* key is claimed and the callback returns nil.
SendUpload ==
    /\ pc = "send_upload"
    /\ SlotFree
    /\ semaphore' = semaphore + 1
    /\ tasks' = Append(tasks, [kind |-> "upload", node |-> pending.node,
                               localPath |-> pending.localPath,
                               key |-> pending.key, st |-> "running",
                               err |-> FALSE])
    /\ remoteFiles' = MapDelete(remoteFiles, pending.key)
    /\ pending' = NoTask
    /\ todo' = Tail(todo)
    /\ pc' = AfterVisit(todo')
    /\ UNCHANGED <<listing, args, tree, remote, remote0, run, first, result, toDelete, wg,
                   uploadCount, deleteCount, visited, putCalls, deleteCalls,
                   logged>>

\* wg.Wait() after the walk returns; then the delete phase is entered when
\* delete mode is on and keys remain in remoteFiles.
WaitUploads ==
    /\ pc = "wait_upload"
    /\ WaitReturns
    /\ logged' = logged \cup { <<"files uploaded", uploadCount>> }
    /\ IF DeletePhase
       THEN /\ pc' = "delete"
            /\ toDelete' = DOMAIN remoteFiles
            /\ result' = result
       ELSE /\ pc' = "returned"
            /\ toDelete' = toDelete
            /\ result' = "nil"
    /\ UNCHANGED <<listing, args, tree, remote, remote0, run, first, remoteFiles, todo,
                   pending, wg, semaphore, tasks, uploadCount, deleteCount,
                   visited, putCalls, deleteCalls>>

\* The delete loop takes the next key of remoteFiles (map order is not
\* specified), counts it and reaches the semaphore send.
DeleteNext ==
    /\ pc = "delete"
    /\ \E key \in toDelete :
          /\ pending' = [kind |-> "delete", key |-> key]
          /\ toDelete' = toDelete \ {key}
    /\ wg' = wg + 1
    /\ deleteCount' = deleteCount + 1
    /\ pc' = "send_delete"
    /\ UNCHANGED <<listing, args, tree, remote, remote0, run, first, result, remoteFiles,
                   todo, semaphore, tasks, uploadCount, visited, putCalls,
                   deleteCalls, logged>>

\* The semaphore send of a delete goes through: the goroutine starts.
SendDelete ==
    /\ pc = "send_delete"
    /\ SlotFree
    /\ semaphore' = semaphore + 1
    /\ tasks' = Append(tasks, [kind |-> "delete", node |-> <<>>,
                               localPath |-> <<>>, key |-> pending.key,
                               st |-> "running", err |-> FALSE])
    /\ pending' = NoTask
    /\ pc' = IF toDelete = {} THEN "wait_delete" ELSE "delete"
    /\ UNCHANGED <<listing, args, tree, remote, remote0, run, first, result, remoteFiles,
                   todo, toDelete, wg, uploadCount, deleteCount, visited,
                   putCalls, deleteCalls, logged>>

\* wg.Wait() after the delete loop; Sync returns nil.
WaitDeletes ==
    /\ pc = "wait_delete"
    /\ WaitReturns
    /\ pc' = "returned"
    /\ result' = "nil"
    /\ logged' = logged \cup { <<"files deleted", deleteCount>> }
    /\ UNCHANGED <<listing, args, tree, remote, remote0, run, first, remoteFiles, todo,
                   pending, toDelete, wg, semaphore, tasks, uploadCount,
                   deleteCount, visited, putCalls, deleteCalls>>

\* ------------------------------------------------------------ the goroutines

UploadFileIgnoresDryRun(t, ok) ==
    IF ~OpenFile(t.localPath).readable
    THEN [err |-> TRUE, called |-> FALSE, line |-> "upload failed"]
    ELSE IF ~ok
    THEN [err |-> TRUE, called |-> TRUE, line |-> "upload failed"]
    ELSE [err |-> FALSE, called |-> TRUE, line |-> "upload"]

\* UploadFile(localPath, remoteKey, dryRun) -> error.  In a dry run nothing
\* but the log line happens.  Otherwise the file is opened (which fails when
\* it cannot be read) and PutObject is called; ok says whether the call
\* succeeds.
UploadFile(t, ok) ==
    IF args.dryRun
    THEN [err |-> FALSE, called |-> FALSE, line |-> "(dryrun) upload"]
    ELSE IF ~OpenFile(t.localPath).readable
    THEN [err |-> TRUE, called |-> FALSE, line |-> "upload failed"]
    ELSE IF ~ok
    THEN [err |-> TRUE, called |-> TRUE, line |-> "upload failed"]
    ELSE [err |-> FALSE, called |-> TRUE, line |-> "upload"]

\* DeleteObject(remotePath, dryRun) -> error.
DeleteObject(t, ok) ==
    IF args.dryRun
    THEN [err |-> FALSE, called |-> FALSE, line |-> "(dryrun) delete"]
    ELSE IF ~ok
    THEN [err |-> TRUE, called |-> TRUE, line |-> "delete failed"]
    ELSE [err |-> FALSE, called |-> TRUE, line |-> "delete"]

\* No goroutine runs once the process has exited.
Alive == pc # "exited"

\* The body of an upload goroutine: log, UploadFile, log a failure.
TaskUpload(i) ==
    /\ Alive
    /\ tasks[i].kind = "upload"
    /\ tasks[i].st = "running"
    /\ \E ok \in BOOLEAN :
       \E t \in {tasks[i]} :
       \E r \in {UploadFile(t, ok)} :
       \E file \in {OpenFile(t.localPath)} :
              /\ tasks' = [tasks EXCEPT ![i].st = "release", ![i].err = r.err]
              /\ logged' = logged \cup { <<"uploading", t.key>>, <<r.line, t.key>> }
              /\ putCalls' = IF r.called THEN CallAdd(putCalls, t.key) ELSE putCalls
              /\ remote' = IF r.called /\ ~r.err
                           THEN [k \in DOMAIN remote \cup {t.key} |->
                                    IF k = t.key
                                    THEN StoredObject(file.content)
                                    ELSE remote[k]]
                           ELSE remote
    /\ UNCHANGED <<listing, args, tree, remote0, run, first, pc, result, remoteFiles, todo,
                   pending, toDelete, wg, semaphore, uploadCount, deleteCount,
                   visited, deleteCalls>>

\* The body of a delete goroutine: log, DeleteObject, log a failure.
TaskDelete(i) ==
    /\ Alive
    /\ tasks[i].kind = "delete"
    /\ tasks[i].st = "running"
    /\ \E ok \in BOOLEAN :
          LET t == tasks[i]
              r == DeleteObject(t, ok)
          IN  /\ tasks' = [tasks EXCEPT ![i].st = "release", ![i].err = r.err]
              /\ logged' = logged \cup { <<"deleting", t.key>>, <<r.line, t.key>> }
              /\ deleteCalls' = IF r.called THEN CallAdd(deleteCalls, t.key)
                                ELSE deleteCalls
              /\ remote' = IF r.called /\ ~r.err
                           THEN MapDelete(remote, t.key)
                           ELSE remote
    /\ UNCHANGED <<listing, args, tree, remote0, run, first, pc, result, remoteFiles, todo,
                   pending, toDelete, wg, semaphore, uploadCount, deleteCount,
                   visited, putCalls>>

\* defer func() { <-semaphore }(): runs first of the two deferred calls.
TaskRelease(i) ==
    /\ Alive
    /\ tasks[i].st = "release"
    /\ semaphore' = semaphore - 1
    /\ tasks' = [tasks EXCEPT ![i].st = "done"]
    /\ UNCHANGED <<listing, args, tree, remote, remote0, run, first, pc, result,
                   remoteFiles, todo, pending, toDelete, wg, uploadCount,
                   deleteCount, visited, putCalls, deleteCalls, logged>>

\* defer wg.Done(): runs last; the goroutine ends.
TaskDone(i) ==
    /\ Alive
    /\ tasks[i].st = "done"
    /\ wg' = wg - 1
    /\ tasks' = [tasks EXCEPT ![i].st = "finished"]
    /\ UNCHANGED <<listing, args, tree, remote, remote0, run, first, pc, result,
                   remoteFiles, todo, pending, toDelete, semaphore, uploadCount,
                   deleteCount, visited, putCalls, deleteCalls, logged>>

\* ---------------------------------------------------------------- main

\* main after Sync returns: log.Fatal (exit status 1) on an error, a normal
\* return otherwise.  Either way the process, and every goroutine, ends.
MainExit ==
    /\ pc = "returned"
    /\ pc' = "exited"
    /\ first' = IF run = "first"
                THEN [ok      |-> /\ result = "nil"
                                  /\ \A i \in 1..Len(tasks) : ~tasks[i].err,
                      started |-> Len(tasks)]
                ELSE first
    /\ UNCHANGED <<listing, args, tree, remote, remote0, run, result, remoteFiles, todo,
                   pending, toDelete, wg, semaphore, tasks, uploadCount,
                   deleteCount, visited, putCalls, deleteCalls, logged>>

ExitStatus == IF result = "nil" THEN 0 ELSE 1

\* The same command line is run again after a run that returned nil with no
\* failed task and was not a dry run; the local tree has not changed, the
\* bucket is as the first run left it.
SecondRun ==
    /\ pc = "exited"
    /\ run = "first"
    /\ result = "nil"
    /\ first.ok
    /\ ~args.dryRun
    /\ run' = "second"
    /\ remote0' = remote
    /\ pc' = "list"
    /\ result' = "none"
    /\ remoteFiles' = <<>>
    /\ todo' = <<>>
    /\ pending' = NoTask
    /\ toDelete' = {}
    /\ wg' = 0
    /\ semaphore' = 0
    /\ tasks' = <<>>
    /\ uploadCount' = 0
    /\ deleteCount' = 0
    /\ visited' = {}
    /\ putCalls' = <<>>
    /\ deleteCalls' = <<>>
    /\ logged' = {}
    /\ listing' = NotListed
    /\ UNCHANGED <<args, tree, remote, first>>

Next ==
    \/ ListObjects
    \/ ListObjectsFails
    \/ WalkFn
    \/ SendUpload
    \/ WaitUploads
    \/ DeleteNext
    \/ SendDelete
    \/ WaitDeletes
    \/ \E i \in 1..Len(tasks) : TaskUpload(i)
    \/ \E i \in 1..Len(tasks) : TaskDelete(i)
    \/ \E i \in 1..Len(tasks) : TaskRelease(i)
    \/ \E i \in 1..Len(tasks) : TaskDone(i)
    \/ MainExit
    \/ SecondRun

Spec == Init /\ [][Next]_vars

\* The runs over a tree that holds a name with a backslash.
InitBackslash ==
    /\ args \in SyncArgs
    /\ tree \in TreesBackslash
    /\ remote \in Buckets
    /\ remote0 = remote
    /\ run = "first"
    /\ first = [ok |-> FALSE, started |-> 0]
    /\ Entry

SpecBackslash == InitBackslash /\ [][Next]_vars

\* The runs with no pattern or with the pattern that matches a segment of a
\* root, under either root.
InitRootPattern ==
    /\ args \in ArgsOver({ <<>>, RootPattern })
    /\ tree \in Trees
    /\ remote \in Buckets
    /\ remote0 = remote
    /\ run = "first"
    /\ first = [ok |-> FALSE, started |-> 0]
    /\ Entry

SpecRootPattern == InitRootPattern /\ [][Next]_vars

\* The runs followed to their end: the current directory as source, no
\* exclusion pattern, fingerprints compared.
LiveInit ==
    /\ Init
    /\ args.localPath = <<".">>
    /\ args.excludePatterns = <<>>
    /\ ~args.sizeOnly

\* The Go scheduler runs every goroutine that can take a step, and every call
\* to the storage service returns: a step that stays possible is taken.
LiveSpec == LiveInit /\ [][Next]_vars /\ WF_vars(Next)

\* ============================================================== properties

\* The local side, as the claims speak of it.
FileNodes == { n \in DOMAIN tree : ~tree[n].isDir }

FullPathOf(n) ==
    IF n = <<>> THEN args.localPath ELSE pathJoin(args.localPath, JoinSlash(n))

\* A node is excluded when a pattern matches it or a directory above it.
Excluded(n) ==
    \E k \in 0..Len(n) :
        shouldExclude(FullPathOf(SubSeq(n, 1, k)), args.excludePatterns)

\* Eligible: a regular file, not excluded, admitted by the recursion rule.
Eligible(n) ==
    /\ n \in FileNodes
    /\ ~Excluded(n)
    /\ (args.recursive \/ Len(n) = 1)

\* join(prefix, rel) of a local node.
KeyOfNode(n) == pathJoin(args.remotePath, JoinSlash(n))

\* What the bucket holds for node n once n has been uploaded.
ObjectOfNode(n) == StoredObject(tree[n].content)

TaskIds == 1..Len(tasks)
UploadTasks == { i \in TaskIds : tasks[i].kind = "upload" }
DeleteTasks == { i \in TaskIds : tasks[i].kind = "delete" }
NoTaskFailed == \A i \in TaskIds : ~tasks[i].err

\* Sync has returned nil.
Completed == pc \in {"returned", "exited"} /\ result = "nil"

\* The objects listed under the prefix are exactly the local files' keys, each
\* with the size and fingerprint of its file.
Converged ==
    ListedUnder(remote, args.remotePath)
        = [ k \in { KeyOfNode(n) : n \in FileNodes } |->
              ObjectOfNode(CHOOSE n \in FileNodes : KeyOfNode(n) = k) ]

\* ---- C1 ----
\* C1 as stated: after a run that completes with recursive on, delete on, no
\* patterns, dry-run off and no failed task, the keys listed under the prefix
\* are exactly the local files' keys and each object has the size and the
\* fingerprint of its file.  (Size-only mode is not ruled out.)
C1_Convergence_AsStated ==
    ( /\ Completed
      /\ args.recursive
      /\ args.deleteSync
      /\ args.excludePatterns = <<>>
      /\ ~args.dryRun
      /\ NoTaskFailed )
    => Converged

\* C1 amended: the same, for runs with size-only mode off.
C1_Convergence ==
    ( /\ Completed
      /\ args.recursive
      /\ args.deleteSync
      /\ args.excludePatterns = <<>>
      /\ ~args.dryRun
      /\ ~args.sizeOnly
      /\ NoTaskFailed )
    => Converged

\* A completed run of that kind that both uploaded and deleted.
C1_Witness ==
    /\ Completed
    /\ args.recursive
    /\ args.deleteSync
    /\ args.excludePatterns = <<>>
    /\ ~args.dryRun
    /\ ~args.sizeOnly
    /\ NoTaskFailed
    /\ UploadTasks # {}
    /\ DeleteTasks # {}
    /\ remote # remote0

\* ---- C2 ----
\* C2: a delete task exists only when delete mode is on, and only for a key
\* to which no eligible local file maps.
C2_DeleteSafety ==
    \A i \in DeleteTasks :
        /\ args.deleteSync
        /\ ~\E n \in DOMAIN tree : Eligible(n) /\ KeyOfNode(n) = tasks[i].key

\* ---- C3 ----
\* C3: once the walk of a non-recursive run is over, every eligible file
\* directly in the root has been classified, and no nested file has.
Classified(n) ==
    \E v \in visited : v.node = n /\ v.verdict \in {"upload", "same"}

C3_NonRecursive ==
    ( /\ ~args.recursive
      /\ args.concurrency >= 1
      /\ pc \in {"wait_upload", "delete", "send_delete", "wait_delete",
                 "returned", "exited"}
      /\ result \in {"none", "nil"} )
    => /\ \A n \in FileNodes : (Len(n) = 1 /\ ~Excluded(n)) => Classified(n)
       /\ \A n \in FileNodes : Len(n) > 1 => ~Classified(n)

\* ---- C4 ----
\* The goroutines that hold a slot of the admission gate.
Holders == { i \in TaskIds : tasks[i].st \in {"running", "release"} }

\* C4: with concurrency N >= 1, at most N tasks hold a slot at any time, in
\* both phases, and the submitter cannot get past its send while N are held.
C4_BoundedConcurrency ==
    args.concurrency >= 1 =>
        /\ Cardinality(Holders) <= args.concurrency
        /\ (pc = "send_upload" /\ Cardinality(Holders) = args.concurrency)
               => ~ENABLED SendUpload
        /\ (pc = "send_delete" /\ Cardinality(Holders) = args.concurrency)
               => ~ENABLED SendDelete

\* The submitter is blocked on a full gate of two running tasks.
C4_Witness ==
    /\ args.concurrency = 2
    /\ Cardinality(Holders) = 2
    /\ pc = "send_delete"

\* ---- C5 ----
\* C5: whenever a delete task has been admitted or is about to be (the
\* delete loop has been entered), every upload task of the run has finished;
\* no DeleteObject call is made before that.
C5_PhaseOrdering ==
    ( \/ DeleteTasks # {}
      \/ pending.kind = "delete"
      \/ deleteCalls # <<>> )
    => \A i \in UploadTasks : tasks[i].st = "finished"

\* A delete task runs after two uploads have finished.
C5_Witness ==
    /\ Cardinality(UploadTasks) = 2
    /\ \E i \in DeleteTasks : tasks[i].st = "running"

\* ---- C6 ----
\* The fingerprint of a local file: its quoted hex MD5.
Fingerprint(n) == <<"\"", MD5Hex(tree[n].content), "\"">>

\* Upload tasks submitted (started or at the semaphore send) for key k.
UploadsFor(k) ==
    Cardinality({ i \in UploadTasks : tasks[i].key = k })
        + (IF pending.kind = "upload" /\ pending.key = k THEN 1 ELSE 0)

\* The identity rule: the key is in the inventory, the sizes are equal, and
\* size-only mode is on or the fingerprints are equal.
SameAsRemote(v) ==
    /\ v.exists
    /\ Len(tree[v.node].content) = v.remoteInfo.Size
    /\ (args.sizeOnly \/ Fingerprint(v.node) = v.remoteInfo.ETag)

NothingSubmitted ==
    /\ tasks = <<>>
    /\ pending = NoTask
    /\ uploadCount = 0
    /\ deleteCount = 0

\* Node n has an identical object under its key in bucket b.
HasTwin(b, n) == KeyOfNode(n) \in DOMAIN b /\ b[KeyOfNode(n)] = ObjectOfNode(n)

\* Every listed key has an identical local file and every eligible local file
\* has an identical object.
InSyncAsStated ==
    /\ \A k \in DOMAIN ListedUnder(remote0, args.remotePath) :
          \E n \in FileNodes : KeyOfNode(n) = k /\ HasTwin(remote0, n)
    /\ \A n \in FileNodes : Eligible(n) => HasTwin(remote0, n)

\* The same, with the local file of every listed key eligible.
InSyncEligible ==
    /\ \A k \in DOMAIN ListedUnder(remote0, args.remotePath) :
          \E n \in FileNodes :
              Eligible(n) /\ KeyOfNode(n) = k /\ HasTwin(remote0, n)
    /\ \A n \in FileNodes : Eligible(n) => HasTwin(remote0, n)

AllTasksFinished ==
    /\ \A i \in TaskIds : tasks[i].st = "finished"
    /\ semaphore = 0
    /\ wg = 0

\* The counts are those of the decisions taken.
CountsMatchDecisions ==
    /\ uploadCount = Cardinality({ v \in visited : v.verdict = "upload" })
    /\ uploadCount = Cardinality(UploadTasks)
    /\ deleteCount = Cardinality(DeleteTasks)
    /\ { tasks[i].key : i \in DeleteTasks }
           = (IF args.deleteSync THEN DOMAIN remoteFiles ELSE {})
    /\ <<"files uploaded", uploadCount>> \in logged

\* C8: in a dry run no PutObject and no DeleteObject call reaches the
\* service and the bucket stays as it was; when the run completes, every
\* decision has gone through the gate, has been logged and is counted.
C8_DryRun ==
    args.dryRun =>
        /\ putCalls = <<>>
        /\ deleteCalls = <<>>
        /\ remote = remote0
        /\ Completed =>
              /\ AllTasksFinished
              /\ CountsMatchDecisions
              /\ \A i \in UploadTasks :
                    /\ <<"uploading", tasks[i].key>> \in logged
                    /\ <<"(dryrun) upload", tasks[i].key>> \in logged
              /\ \A i \in DeleteTasks :
                    /\ <<"deleting", tasks[i].key>> \in logged
                    /\ <<"(dryrun) delete", tasks[i].key>> \in logged

\* A dry run with uploads and deletes has completed.
C8_Witness ==
    /\ args.dryRun
    /\ Completed
    /\ Cardinality(UploadTasks) = 2
    /\ DeleteTasks # {}

\* ---- C9 ----
\* C9: failed tasks change nothing else.  Sync returns an error only for a
\* failed listing or a failed walk; when it returns nil every task has run
\* to its end and released its slot, the delete phase has covered every
\* unclaimed key, and no key was put or deleted more than once.
C9_FailureIsolation ==
    /\ result = "list_error" => tasks = <<>>
    /\ result = "walk_error" =>
          \E v \in visited : v.verdict \in {"error", "failed"}
    /\ \A k \in DOMAIN putCalls : putCalls[k] = 1
    /\ \A k \in DOMAIN deleteCalls : deleteCalls[k] = 1
    /\ Completed =>
          /\ AllTasksFinished
          /\ ExitStatus = 0
          /\ { tasks[i].key : i \in DeleteTasks }
                 = (IF args.deleteSync THEN DOMAIN remoteFiles ELSE {})
          /\ \A i \in TaskIds : tasks[i].err =>
                \E line \in {"upload failed", "delete failed"} :
                    <<line, tasks[i].key>> \in logged

\* A run has completed in which an upload failed, another upload succeeded
\* and a delete ran afterwards.
C9_Witness ==
    /\ Completed
    /\ \E i \in UploadTasks : tasks[i].err
    /\ \E i \in UploadTasks : ~tasks[i].err
    /\ \E i \in DeleteTasks : tasks[i].st = "finished"

C11_ConfigError ==
    args.concurrency <= 0 =>
        /\ listing.calls = <<>>
        /\ pc \in {"list", "returned", "exited"}
        /\ tasks = <<>>
        /\ pending = NoTask
        /\ pc \in {"returned", "exited"} => ExitStatus # 0

\* ---- C12 ----
\* C12: when a listing request fails, on the first page or a later one, Sync
\* returns an error (exit status 1) with no inventory at all, the walk never
\* starts, no task is submitted and no PutObject or DeleteObject call is made.
C12_ListFailureTerminal ==
    listing.failed =>
        /\ pc \in {"returned", "exited"}
        /\ result = "list_error"
        /\ ExitStatus = 1
        /\ remoteFiles = <<>>
        /\ todo = <<>>
        /\ visited = {}
        /\ tasks = <<>>
        /\ pending = NoTask
        /\ putCalls = <<>>
        /\ deleteCalls = <<>>
        /\ remote = remote0

\* The request for the second page failed after a first page of objects.
C12_Witness ==
    /\ listing.failed
    /\ Len(listing.calls) = 2
    /\ listing.calls[2] # NilToken
    /\ listing.result # <<>>
    /\ pc = "exited"

\* ---- C13 ----
\* C13: when the walk reports an error on an entry, the walk stops, Sync
\* returns an error, and no PutObject and no DeleteObject call of the run
\* has reached the service: the bucket is as it was before the run.
C13_WalkFailureNoPartialSync ==
    (\E v \in visited : v.verdict = "failed") =>
        /\ pc \in {"returned", "exited"}
        /\ result = "walk_error"
        /\ putCalls = <<>>
        /\ deleteCalls = <<>>
        /\ remote = remote0

\* ---- C16 ----
\* C16: on every return of Sync, with nil or with an error, every task it
\* has submitted has run to its end and released its slot.
C16_BatchCompletion ==
    pc \in {"returned", "exited"} => AllTasksFinished

\* ---- C14 ----
\* Node n lies beneath the directory of visited entry v.
Beneath(v, n) ==
    /\ Len(n) > Len(v.node)
    /\ SubSeq(n, 1, Len(v.node)) = v.node

\* The patterns in the opposite order.
ReversedPatterns ==
    [i \in 1..Len(args.excludePatterns) |->
        args.excludePatterns[Len(args.excludePatterns) + 1 - i]]

\* The listing has returned the inventory.
Listed == pc # "list" /\ ~listing.failed

\* C14: the walk never enters a directory that a pattern excludes: nothing
\* beneath it is visited, fingerprinted, classified or uploaded, and the key
\* of a file beneath it is never claimed, whatever the file's own name.  Which
\* entries are excluded does not depend on the order of the patterns, and a
\* malformed pattern matches nothing (the patterns and the tree never change,
\* so this part is evaluated where Sync is entered).  A run ends in a walk
\* error only for an entry that could not be read.
C14_ExclusionPrunes ==
    /\ \A v \in visited :
          ( /\ tree[v.node].isDir
            /\ shouldExclude(v.full, args.excludePatterns) ) =>
              /\ v.verdict \in {"skip", "failed"}
              /\ \A n \in DOMAIN tree :
                    Beneath(v, n) =>
                        /\ \A w \in visited : w.node # n
                        /\ \A i \in UploadTasks : tasks[i].node # n
                        /\ pending.kind = "upload" => pending.node # n
                        /\ KeyOfNode(n) \in DOMAIN listing.result
                               => KeyOfNode(n) \in DOMAIN remoteFiles
    /\ (pc = "list" /\ listing.calls = <<>>) =>
          /\ \A n \in DOMAIN tree :
                shouldExclude(FullPathOf(n), args.excludePatterns)
                    = shouldExclude(FullPathOf(n), ReversedPatterns)
          /\ \A k \in 1..Len(args.excludePatterns) :
                BadPattern(args.excludePatterns[k]) =>
                    \A n \in DOMAIN tree :
                        ~shouldExclude(FullPathOf(n),
                                       << args.excludePatterns[k] >>)
    /\ result = "walk_error" =>
          \E v \in visited : v.verdict \in {"error", "failed"}

\* A run with a malformed pattern and a pattern for directory s has completed:
\* s was pruned, s/b (whose name matches no pattern) was never visited and its
\* unclaimed key was deleted.
C14_Witness ==
    /\ Completed
    /\ \E k \in 1..Len(args.excludePatterns) : BadPattern(args.excludePatterns[k])
    /\ \E v \in visited : v.node = NodeS /\ v.verdict = "skip"
    /\ ~shouldExclude(<<"b">>, args.excludePatterns)
    /\ \A v \in visited : v.node # NodeSB
    /\ \E i \in DeleteTasks : tasks[i].key = KeySB /\ tasks[i].st = "finished"
    /\ \E i \in UploadTasks : tasks[i].node = NodeA

\* ---- C15 ----
\* The walk of this run has ended without an error.
WalkOver ==
    /\ pc \in {"wait_upload", "delete", "send_delete", "wait_delete",
               "returned", "exited"}
    /\ result \in {"none", "nil"}

\* C15: when the listing under the prefix came back empty, no delete task is
\* ever counted or submitted, with delete mode on or off, no file has more
\* than one upload task, and once the walk is over every eligible local file
\* has exactly one upload task.
C15_EmptyRemote ==
    (Listed /\ listing.result = <<>> /\ args.concurrency >= 1) =>
        /\ DeleteTasks = {}
        /\ pending.kind # "delete"
        /\ deleteCount = 0
        /\ \A n \in FileNodes : UploadsFor(KeyOfNode(n)) <= 1
        /\ WalkOver =>
              \A n \in FileNodes : Eligible(n) => UploadsFor(KeyOfNode(n)) = 1

\* ---- C17 ----
\* C17: a file that has been classified, as an upload or as the same, has
\* claimed its key once the callback has returned: the key is no longer in
\* remoteFiles, and no delete task is counted or submitted for it, whether
\* its upload succeeds, fails or is only simulated.
C17_ClaimingIndependent ==
    \A v \in visited :
        ( /\ v.verdict \in {"upload", "same"}
          /\ ~(pending.kind = "upload" /\ pending.node = v.node) ) =>
            /\ v.key \notin DOMAIN remoteFiles
            /\ v.key \notin toDelete
            /\ ~(pending.kind = "delete" /\ pending.key = v.key)
            /\ \A i \in DeleteTasks : tasks[i].key # v.key

\* A real run has completed in which the upload for a key of the inventory
\* failed and the delete phase ran: the key was not deleted.
C17_Witness ==
    /\ Completed
    /\ ~args.dryRun
    /\ \E i \in UploadTasks :
          /\ tasks[i].err
          /\ tasks[i].key \in DOMAIN remote0
          /\ tasks[i].key \in DOMAIN remote
    /\ \E i \in DeleteTasks : tasks[i].st = "finished"

\* ---- C18 ----
\* Sync has returned: with nil, or with the error of a failed listing or of
\* an entry the walk or the fingerprint could not read.
Done ==
    /\ pc \in {"returned", "exited"}
    /\ \/ result = "nil"
       \/ listing.failed
       \/ \E v \in visited : v.verdict \in {"error", "failed"}

\* C18: with concurrency >= 1, every fair execution of Sync returns; a
\* submitter blocked on a full gate and the waits after both phases always
\* get on.
C18_Termination == (args.concurrency >= 1) ~> Done

\* A run has completed in which the submitter had found the gate full (more
\* tasks than slots) in both phases.
C18_Witness ==
    /\ Completed
    /\ args.concurrency = 1
    /\ Cardinality(UploadTasks) >= 2
    /\ Cardinality(DeleteTasks) >= 2
    /\ AllTasksFinished

\* ---- C19 ----
\* The page the service returns for the j-th request of the listing.
PageOfCall(j) == ListObjectsV2(remote0, args.remotePath, listing.calls[j])

\* C19: the first request carries no token and every later one the
\* continuation token of the page before it, which was truncated; a listing
\* that returned without error ended at a page that is not truncated and
\* holds every object under the prefix, one entry per key; the keys missing
\* from remoteFiles afterwards are those the walk has claimed.  (The requests
\* are all made before the first entry is visited, and the record of them
\* does not change afterwards: that part is evaluated up to there.)
C19_Pagination ==
    /\ visited = {} =>
          /\ \A j \in 1..Len(listing.calls) :
                IF j = 1 THEN listing.calls[j] = NilToken
                ELSE /\ PageOfCall(j - 1).IsTruncated
                     /\ listing.calls[j] = PageOfCall(j - 1).NextContinuationToken
          /\ Listed => ~PageOfCall(Len(listing.calls)).IsTruncated
    /\ Listed =>
          /\ listing.result = ListedUnder(remote0, args.remotePath)
          /\ \A k \in DOMAIN listing.result :
                \/ k \in DOMAIN remoteFiles /\ remoteFiles[k] = listing.result[k]
                \/ \E v \in visited : v.key = k /\ v.verdict \in {"upload", "same"}
          /\ DOMAIN remoteFiles \subseteq DOMAIN listing.result

\* The listing took more than one request, and the walk has started from its
\* result.
C19_Witness ==
    /\ Listed
    /\ Len(listing.calls) >= 2
    /\ Cardinality(DOMAIN listing.result) > PageSize
    /\ visited # {}

\* ---- C20 ----
\* A target prefix as a directory name: with one trailing slash.
AsDir(prefix) ==
    IF prefix # <<>> /\ prefix[Len(prefix)] = SLASH THEN prefix
    ELSE prefix \o <<SLASH>>

\* Key k is join(prefix, rel) for a non-empty rel.
InTargetDir(k) ==
    /\ HasPrefix(k, AsDir(args.remotePath))
    /\ Len(k) > Len(AsDir(args.remotePath))

\* C20: every key counted or submitted for deletion lies in the target
\* directory, and an object outside it is still in the bucket.
C20_DeletesInsideDir ==
    /\ pending.kind = "delete" => InTargetDir(pending.key)
    /\ \A i \in DeleteTasks : InTargetDir(tasks[i].key)
    /\ \A k \in DOMAIN remote0 : ~InTargetDir(k) => k \in DOMAIN remote

\* ---- C21 ----
\* C21: no two tasks of a run have the same remote key, so every key is put
\* at most once, deleted at most once and never both.
C21_OneTaskPerKey ==
    /\ \A i \in TaskIds : \A j \in TaskIds : i # j => tasks[i].key # tasks[j].key
    /\ \A i \in TaskIds : ~(pending.kind # "none" /\ pending.key = tasks[i].key)

\* ---- C22 ----
\* The patterns match no path relative to the sync root and no segment of
\* one: below the root there is nothing for them to exclude.
MatchNothingBelowRoot ==
    \A n \in DOMAIN tree \ {<<>>} :
        ~shouldExclude(JoinSlash(n), args.excludePatterns)

\* C22: patterns that match nothing below the sync root exclude no entry of
\* the walk, whatever the segments of the root path are; the run then
\* classifies and submits what a run without patterns does.
C22_ExclusionBelowRoot ==
    MatchNothingBelowRoot =>
        \A v \in visited : ~shouldExclude(v.full, args.excludePatterns)

====
